---- MODULE Spec2Model ----
(***************************************************************************)
(* Circleverse: household wealth formation simulation.                     *)
(*                                                                         *)
(* A model of src/simulation.py: Dot (Member), ClusterCube (Household),    *)
(* Circlverse (Community) and CircleverseSimulation (Simulation).          *)
(*                                                                         *)
(* Money is kept in fixed point: one currency unit is Scale model units.   *)
(* Multipliers (economic_multiplier, cost_of_living_index, the age factor  *)
(* and the monthly expense variation) are kept in tenths, the savings rate *)
(* in hundredths.  With Scale = 200 every product the simulation forms on  *)
(* the modelled inputs is an integer, so the monthly update is exact.      *)
(* The Gini coefficient, whose result is compared with exactly 0.0, is     *)
(* modelled with the rounding of binary floating point (see Fl).           *)
(***************************************************************************)
EXTENDS Integers, Sequences, FiniteSets, TLC

\* ------------------------------------------------------------------ bounds
MaxMonth == 2        \* current_month never exceeds this in the model
MaxStep == 2         \* largest n of step(n)
MaxCubes == 2        \* Households over the whole Simulation
MaxShocks == 1       \* shocks applied in one behaviour
MaxCalls == 1        \* step calls without effect (paused, or of 0 months)
MaxShockSeries == 2  \* shocks applied in one behaviour of a series of shocks
MaxStatCubes == 3    \* Households of a Community whose statistics are queried
MaxManualCubes == 2  \* Households of a manually configured Community
MaxGiniCubes == 5    \* Households of a Community whose Gini coefficient is taken
FloatBits == 12      \* significant bits of a float in the model (53 in the code)

\* one currency unit, in model units (2 for the tenth x tenth products of
\* the expenses, 100 for the savings rate in hundredths)
Scale == 2 * 100

\* -------------------------------------------------------- generic helpers
RECURSIVE SumSeq(_)
SumSeq(s) == IF s = <<>> THEN 0 ELSE Head(s) + SumSeq(Tail(s))

Last(s) == s[Len(s)]

Abs(x) == IF x < 0 THEN -x ELSE x

\* ---------------------------------------------------------------- floats
\* the exponent e >= e0 that leaves a >= 0 at most FloatBits significant bits
RECURSIVE Exponent(_, _)
Exponent(a, e0) == IF a < 2 ^ (FloatBits + e0) THEN e0 ELSE Exponent(a, e0 + 1)

\* the float nearest to the number x of model units: x rounded to FloatBits
\* significant bits, ties to the even mantissa
Fl(x) ==
    LET a == Abs(x)
        e == Exponent(a, 0)
        q == a \div (2 ^ e)
        r == a % (2 ^ e)
        m == IF 2 * r > 2 ^ e \/ (2 * r = 2 ^ e /\ q % 2 = 1) THEN q + 1 ELSE q
    IN  IF x < 0 THEN -(m * 2 ^ e) ELSE m * 2 ^ e

\* the float num / den, kept as the pair it is the quotient of
Quotient(num, den) == [num |-> num, den |-> den]

\* sorted(s)
RECURSIVE Insert(_, _)
Insert(x, s) ==
    IF s = <<>> THEN <<x>>
    ELSE IF x <= Head(s) THEN <<x>> \o s
    ELSE <<Head(s)>> \o Insert(x, Tail(s))

RECURSIVE Sorted(_)
Sorted(s) == IF s = <<>> THEN <<>> ELSE Insert(Head(s), Sorted(Tail(s)))

\* sum(s) over floats, started at acc
RECURSIVE FloatSum(_, _)
FloatSum(s, acc) == IF s = <<>> THEN acc ELSE FloatSum(Tail(s), Fl(acc + Head(s)))

\* x / d rounded to the nearest integer, ties to the even one (x >= 0, d > 0)
RoundDiv(x, d) ==
    LET q == x \div d
        r == x % d
    IN  IF 2 * r > d \/ (2 * r = d /\ q % 2 = 1) THEN q + 1 ELSE q

\* the binary places k >= k0 that a / n (0 < a) needs below the unit to
\* have FloatBits significant bits
RECURSIVE Places(_, _, _)
Places(a, n, k0) ==
    IF a * 2 ^ k0 >= n * 2 ^ (FloatBits - 1) THEN k0 ELSE Places(a, n, k0 + 1)

\* the float a / n for an integer n > 0, as a quotient by a power of two
FloatDiv(a, n) ==
    LET abs == Abs(a)
        sign == IF a < 0 THEN -1 ELSE 1
    IN  IF a = 0 THEN Quotient(0, 1)
        ELSE IF abs >= n * 2 ^ (FloatBits - 1)
        THEN LET e == Exponent(abs \div n, 0)
                 m == RoundDiv(abs, n * 2 ^ e)
             IN  Quotient(sign * m * 2 ^ e, 1)
        ELSE LET k == Places(abs, n, 0)
             IN  Quotient(sign * RoundDiv(abs * 2 ^ k, n), 2 ^ k)

\* ------------------------------------------------------------------- Dot
\* OccupationType
PROFESSIONAL == "professional"
SKILLED_TRADE == "skilled_trade"
SERVICE == "service"
RETAIL == "retail"
UNEMPLOYED == "unemployed"
OccupationType == {PROFESSIONAL, SKILLED_TRADE, SERVICE, RETAIL, UNEMPLOYED}

\* monthly base income by occupation, in currency units
OCCUPATION_INCOME(occ) ==
    CASE occ = PROFESSIONAL -> 8000
      [] occ = SKILLED_TRADE -> 5000
      [] occ = SERVICE -> 3000
      [] occ = RETAIL -> 2500
      [] occ = UNEMPLOYED -> 0
      [] OTHER -> 0

Dot(age, occupation, is_working) ==
    [age |-> age, occupation |-> occupation, is_working |-> is_working]

\* an age factor whose peak earning years start at 40
AgeFactor_Peak40(age) ==
    IF 40 <= age /\ age <= 50 THEN 12
    ELSE IF age < 25 \/ age > 65 THEN 8
    ELSE 10

\* the age factor of Dot.get_monthly_income, in tenths
AgeFactor(age) ==
    IF 25 <= age /\ age <= 50 THEN 12
    ELSE IF age < 25 \/ age > 65 THEN 8
    ELSE 10

\* get_monthly_income paying a Member that is not working
GetMonthlyIncome_IgnoreWorking(dot) ==
    (OCCUPATION_INCOME(dot.occupation) * Scale * AgeFactor(dot.age)) \div 10

\* Dot.get_monthly_income, in model units
GetMonthlyIncome(dot) ==
    IF ~dot.is_working THEN 0
    ELSE (OCCUPATION_INCOME(dot.occupation) * Scale * AgeFactor(dot.age)) \div 10

\* ------------------------------------------------------------ ClusterCube
\* ClusterCube._calculate_base_expenses, in model units
CalculateBaseExpenses(num_dots, num_dependents) ==
    LET base_housing == 1500 + (num_dots + num_dependents) * 400
        base_food == 300 + (num_dots + num_dependents) * 150
        base_other == 500 + (num_dots + num_dependents) * 100
    IN  (base_housing + base_food + base_other) * Scale

\* ClusterCube(...) with explicit dots: the dataclass constructor followed by
\* __post_init__.  savings_rate is in hundredths, current_wealth in
\* currency units.  Two history fields are kept beside the object's own:
\* start_month, the Simulation month at the later of the Household's joining
\* the Simulation and the last reset, and entry_months, the Simulation month
\* in which each entry of its histories was recorded.
ClusterCube(cube_id, num_dots, dots, num_dependents, savings_rate, current_wealth) ==
    [cube_id |-> cube_id,
     num_dots |-> num_dots,
     dots |-> dots,
     num_dependents |-> num_dependents,
     location |-> <<0, 0>>,
     current_wealth |-> current_wealth * Scale,
     savings_rate |-> savings_rate,
     monthly_expenses |-> CalculateBaseExpenses(num_dots, num_dependents),
     wealth_history |-> <<>>,
     income_history |-> <<>>,
     expense_history |-> <<>>,
     start_month |-> 0,
     entry_months |-> <<>>]

\* None as the value of ClusterCube.dots: not a list, and false as a condition
None == [x \in {0} |-> "None"]
IsNone(dots) == DOMAIN dots = {0}

\* ClusterCube._generate_dots; ages[i] and occupations[i] are the draws of
\* random.randint and random.choice for dot i
GenerateDots(num_dots, ages, occupations) ==
    [i \in 1..num_dots |->
        Dot(ages[i],
            IF ages[i] < 18 \/ ages[i] > 65 THEN UNEMPLOYED ELSE occupations[i],
            ages[i] >= 18 /\ ages[i] <= 65)]

\* ClusterCube(...) as the dataclass constructor followed by __post_init__:
\* `if not self.dots and self.num_dots > 0` generates the dots, otherwise
\* the dots stay what was passed, None included
ClusterCubePostInit(cube_id, num_dots, dots, num_dependents, savings_rate, current_wealth, ages, occupations) ==
    ClusterCube(cube_id, num_dots,
                IF (IsNone(dots) \/ dots = <<>>) /\ num_dots > 0
                THEN GenerateDots(num_dots, ages, occupations)
                ELSE dots,
                num_dependents, savings_rate, current_wealth)

\* ClusterCube.get_total_income
RECURSIVE GetTotalIncome(_)
GetTotalIncome(dots) ==
    IF dots = <<>> THEN 0
    ELSE GetMonthlyIncome(Head(dots)) + GetTotalIncome(Tail(dots))

\* savings that follow the net income below zero
Savings_Dissave(net_income, savings_rate) ==
    (net_income * savings_rate) \div 100

\* the savings of one month: net_income * savings_rate if net_income > 0 else 0
Savings(net_income, savings_rate) ==
    IF net_income > 0 THEN (net_income * savings_rate) \div 100 ELSE 0

\* simulate_month recording the wealth only in the months it grew
CubeSimulateMonth_RecordGains(cube, cost_of_living_index, economic_multiplier, u) ==
    LET base_income == (GetTotalIncome(cube.dots) * economic_multiplier) \div 10
        expenses0 == (cube.monthly_expenses * cost_of_living_index) \div 10
        expenses == (expenses0 * (10 + u)) \div 10
        net_income == base_income - expenses
        savings == Savings(net_income, cube.savings_rate)
        wealth == cube.current_wealth + savings
    IN  [cube EXCEPT !.current_wealth = wealth,
                     !.wealth_history = IF savings > 0 THEN Append(@, wealth) ELSE @,
                     !.income_history = Append(@, base_income),
                     !.expense_history = Append(@, expenses)]

\* ClusterCube.simulate_month; u is the draw of random.uniform(-0.1, 0.1),
\* in tenths
CubeSimulateMonth(cube, cost_of_living_index, economic_multiplier, u) ==
    LET base_income == (GetTotalIncome(cube.dots) * economic_multiplier) \div 10
        expenses0 == (cube.monthly_expenses * cost_of_living_index) \div 10
        expenses == (expenses0 * (10 + u)) \div 10
        net_income == base_income - expenses
        savings == Savings(net_income, cube.savings_rate)
        wealth == cube.current_wealth + savings
    IN  [cube EXCEPT !.current_wealth = wealth,
                     !.wealth_history = Append(@, wealth),
                     !.income_history = Append(@, base_income),
                     !.expense_history = Append(@, expenses)]

\* the record ClusterCube.simulate_month returns
CubeMonthResult(cube, cost_of_living_index, economic_multiplier, u) ==
    LET after == CubeSimulateMonth(cube, cost_of_living_index, economic_multiplier, u)
        income == Last(after.income_history)
        expenses == Last(after.expense_history)
    IN  [income |-> income,
         expenses |-> expenses,
         net_income |-> income - expenses,
         savings |-> after.current_wealth - cube.current_wealth,
         wealth |-> after.current_wealth]

\* the indices of the dots a job_loss shock may pick
WorkingDots(cube) ==
    {d \in DOMAIN cube.dots :
        cube.dots[d].is_working /\ cube.dots[d].occupation # UNEMPLOYED}

\* a shock that books the magnitude of every kind but job_loss
ApplyEconomicShock_AnyKindBooked(cube, shock_type, magnitude, pick) ==
    IF shock_type = "job_loss"
    THEN IF {d \in DOMAIN cube.dots :
                cube.dots[d].is_working /\ cube.dots[d].occupation # UNEMPLOYED} # {}
         THEN [cube EXCEPT !.dots[pick] =
                  [@ EXCEPT !.occupation = UNEMPLOYED, !.is_working = FALSE]]
         ELSE cube
    ELSE [cube EXCEPT !.current_wealth = @ + magnitude * Scale]

\* a job loss that takes the occupation and leaves the Member working
ApplyEconomicShock_StillWorking(cube, shock_type, magnitude, pick) ==
    IF shock_type = "job_loss"
    THEN IF {d \in DOMAIN cube.dots :
                cube.dots[d].is_working /\ cube.dots[d].occupation # UNEMPLOYED} # {}
         THEN [cube EXCEPT !.dots[pick] = [@ EXCEPT !.occupation = UNEMPLOYED]]
         ELSE cube
    ELSE IF shock_type = "medical" \/ shock_type = "windfall"
    THEN [cube EXCEPT !.current_wealth = @ + magnitude * Scale]
    ELSE cube

\* ClusterCube.apply_economic_shock; pick is the index random.choice drew
\* among the working dots (unused when there is none).  magnitude is in
\* currency units.
ApplyEconomicShock(cube, shock_type, magnitude, pick) ==
    IF shock_type = "job_loss"
    THEN IF WorkingDots(cube) # {}
         THEN [cube EXCEPT !.dots[pick] =
                  [@ EXCEPT !.occupation = UNEMPLOYED, !.is_working = FALSE]]
         ELSE cube
    ELSE IF shock_type = "medical"
    THEN [cube EXCEPT !.current_wealth = @ + magnitude * Scale]
    ELSE IF shock_type = "windfall"
    THEN [cube EXCEPT !.current_wealth = @ + magnitude * Scale]
    ELSE cube

\* ------------------------------------------------------------- Circlverse
Circlverse(circlverse_id, radius, economic_multiplier, cost_of_living_index) ==
    [circlverse_id |-> circlverse_id,
     radius |-> radius,
     economic_multiplier |-> economic_multiplier,
     cost_of_living_index |-> cost_of_living_index,
     cluster_cubes |-> <<>>,
     total_wealth |-> 0,
     average_wealth |-> 0,
     wealth_history |-> <<>>]

\* Circlverse.add_cluster_cube; loc is the position drawn inside the circle
AddClusterCube(cv, cube, loc) ==
    [cv EXCEPT !.cluster_cubes = Append(@, [cube EXCEPT !.location = loc])]

Wealths(cv) == [i \in DOMAIN cv.cluster_cubes |-> cv.cluster_cubes[i].current_wealth]

\* _update_metrics taking the average from the total of the month before
UpdateMetrics_StaleAverage(cv) ==
    IF cv.cluster_cubes # <<>>
    THEN LET total == SumSeq(Wealths(cv))
             average == cv.total_wealth \div Len(cv.cluster_cubes)
         IN  [cv EXCEPT !.total_wealth = total,
                        !.average_wealth = average,
                        !.wealth_history = Append(@, average)]
    ELSE [cv EXCEPT !.total_wealth = 0,
                    !.average_wealth = 0,
                    !.wealth_history = Append(@, 0)]

\* Circlverse._update_metrics
UpdateMetrics(cv) ==
    IF cv.cluster_cubes # <<>>
    THEN LET total == SumSeq(Wealths(cv))
             average == total \div Len(cv.cluster_cubes)
         IN  [cv EXCEPT !.total_wealth = total,
                        !.average_wealth = average,
                        !.wealth_history = Append(@, average)]
    ELSE [cv EXCEPT !.total_wealth = 0,
                    !.average_wealth = 0,
                    !.wealth_history = Append(@, 0)]

\* the index of the first household of cv whose dots are None, 0 if none
FirstNone(cv) ==
    LET nones == {j \in DOMAIN cv.cluster_cubes : IsNone(cv.cluster_cubes[j].dots)}
    IN  IF nones = {} THEN 0
        ELSE CHOOSE j \in nones : \A k \in nones : j <= k

\* Circlverse.simulate_month up to the TypeError that get_total_income
\* raises on household FirstNone(cv), whose dots are None: the households
\* before it had their month, nothing else happened
CvSimulateMonthRaises(cv, us) ==
    [cv EXCEPT !.cluster_cubes =
        [i \in DOMAIN @ |->
            IF i < FirstNone(cv)
            THEN CubeSimulateMonth(@[i], cv.cost_of_living_index,
                                   cv.economic_multiplier, us[i])
            ELSE @[i]]]

\* history: the first upto households of cv recorded an entry in month
Recorded(cv, month, upto) ==
    [cv EXCEPT !.cluster_cubes =
        [j \in DOMAIN @ |->
            IF j <= upto THEN [@[j] EXCEPT !.entry_months = Append(@, month)]
            ELSE @[j]]]

\* history: every household of cv starts anew in month
Restarted(cv, month) ==
    [cv EXCEPT !.cluster_cubes =
        [j \in DOMAIN @ |->
            [@[j] EXCEPT !.start_month = month, !.entry_months = <<>>]]]

\* Circlverse.simulate_month; us[i] is the expense draw of household i
CvSimulateMonth(cv, us) ==
    UpdateMetrics(
        [cv EXCEPT !.cluster_cubes =
            [i \in DOMAIN @ |->
                CubeSimulateMonth(@[i], cv.cost_of_living_index,
                                  cv.economic_multiplier, us[i])]])

\* min(s) and max(s) of a non-empty list
Min(s) == CHOOSE x \in {s[i] : i \in DOMAIN s} : \A i \in DOMAIN s : x <= s[i]
Max(s) == CHOOSE x \in {s[i] : i \in DOMAIN s} : \A i \in DOMAIN s : x >= s[i]

\* Circlverse.get_wealth_distribution; <<>> stands for the empty mapping,
\* the mean is the float sum(wealths) / len(wealths)
GetWealthDistribution(cv) ==
    IF cv.cluster_cubes = <<>> THEN <<>>
    ELSE LET wealths == Wealths(cv)
             n == Len(wealths)
         IN  [min |-> Min(wealths),
              max |-> Max(wealths),
              mean |-> FloatDiv(FloatSum(wealths, 0), n),
              median |-> Sorted(wealths)[n \div 2 + 1],
              total |-> FloatSum(wealths, 0)]

\* the loop of calculate_gini_coefficient from index i on:
\* cumsum += wealth * (2 * (i + 1) - n - 1), i counted from 1 here
RECURSIVE GiniCumsum(_, _, _)
GiniCumsum(wealths, i, cumsum) ==
    IF i > Len(wealths) THEN cumsum
    ELSE GiniCumsum(wealths, i + 1,
                    Fl(cumsum + Fl(wealths[i] * (2 * i - Len(wealths) - 1))))

\* Circlverse.calculate_gini_coefficient
CalculateGiniCoefficient(cv) ==
    IF Len(cv.cluster_cubes) < 2 THEN Quotient(0, 1)
    ELSE LET wealths == Sorted(Wealths(cv))
             n == Len(wealths)
             cumsum == GiniCumsum(wealths, 1, 0)
             total == FloatSum(wealths, 0)
         IN  IF total = 0 THEN Quotient(0, 1)
             ELSE Quotient(cumsum, Fl(n * total))

\* ------------------------------------------------- CircleverseSimulation
VARIABLES
    circlverses,    \* CircleverseSimulation.circlverses
    current_month,  \* CircleverseSimulation.current_month
    is_paused,      \* CircleverseSimulation.is_paused
    pc,             \* where the controller is: "idle", or inside step / run_until
    months_left,    \* step: iterations of `for _ in range(months)` still to run
    cv_i,           \* step: index of the next Circlverse of the inner loop
    run_target,     \* run_until: <<target_month>> while it runs, else <<>>
    call,           \* history: the last call made on the Simulation
    sim_counts,     \* history: simulate_month calls per Circlverse in that call
    step_calls,     \* history: step calls completed since construction / reset
    months_stepped, \* history: months asked of unpaused step calls since then
    n_shocks        \* history: shocks applied so far

vars == <<circlverses, current_month, is_paused, pc, months_left, cv_i,
          run_target, call, sim_counts, step_calls, months_stepped, n_shocks>>

sim == <<circlverses, current_month, is_paused>>
loop == <<pc, months_left, cv_i, run_target>>

\* the Communities a run creates, in this order (multipliers in tenths)
CirclverseConfigs ==
    <<Circlverse("A", 100, 10, 10), Circlverse("B", 80, 12, 9)>>

\* the Households a run creates, in this order
CubeConfigs ==
    <<ClusterCube("H1", 2, <<Dot(35, PROFESSIONAL, TRUE), Dot(32, UNEMPLOYED, FALSE)>>,
                  0, 20, 0),
      ClusterCube("H2", 2, <<Dot(20, SERVICE, TRUE), Dot(55, RETAIL, TRUE)>>,
                  2, 100, 500),
      ClusterCube("H3", 1, <<Dot(45, UNEMPLOYED, FALSE)>>, 0, 0, 0)>>

\* positions add_cluster_cube may draw
LocSet == {<<30, 40>>}

\* values random.uniform(-0.1, 0.1) may draw, in tenths: the mean and the
\* upper end
USet == {0, 1}

ShockTypes == {"job_loss", "medical", "windfall", "tax"}
Magnitudes == {-5000, 10000}

CubeCount == SumSeq([i \in DOMAIN circlverses |-> Len(circlverses[i].cluster_cubes)])

\* the (Circlverse, ClusterCube) index pairs of the Simulation
CubeIds ==
    UNION {{<<i, j>> : j \in DOMAIN circlverses[i].cluster_cubes} : i \in DOMAIN circlverses}

Cube(ij) == circlverses[ij[1]].cluster_cubes[ij[2]]

Call(op, arg) == [op |-> op, arg |-> arg, month0 |-> current_month]

NoCounts == [i \in DOMAIN circlverses |-> 0]

\* CircleverseSimulation.__init__
Init ==
    /\ circlverses = <<>>
    /\ current_month = 0
    /\ is_paused = FALSE
    /\ pc = "idle"
    /\ months_left = 0
    /\ cv_i = 0
    /\ run_target = <<>>
    /\ call = [op |-> "init", arg |-> 0, month0 |-> 0]
    /\ sim_counts = <<>>
    /\ step_calls = 0
    /\ months_stepped = 0
    /\ n_shocks = 0

\* CircleverseSimulation.add_circlverse
AddCirclverse ==
    /\ pc = "idle"
    /\ Len(circlverses) < Len(CirclverseConfigs)
    /\ circlverses' = Append(circlverses, CirclverseConfigs[Len(circlverses) + 1])
    /\ call' = Call("add_circlverse", 0)
    /\ sim_counts' = <<>>
    /\ UNCHANGED <<current_month, is_paused, loop, step_calls, months_stepped, n_shocks>>

\* Circlverse.add_cluster_cube on a Community of the Simulation
AddCube ==
    /\ pc = "idle"
    /\ CubeCount < MaxCubes
    /\ CubeCount < Len(CubeConfigs)
    /\ \E i \in DOMAIN circlverses, loc \in LocSet :
          circlverses' = [circlverses EXCEPT ![i] =
                            AddClusterCube(@, [CubeConfigs[CubeCount + 1] EXCEPT
                                                  !.start_month = current_month],
                                           loc)]
    /\ call' = Call("add_cluster_cube", 0)
    /\ sim_counts' = <<>>
    /\ UNCHANGED <<current_month, is_paused, loop, step_calls, months_stepped, n_shocks>>

\* step without the test of is_paused
Step_NoPauseCheck ==
    /\ pc = "idle"
    /\ \E months \in 0..MaxStep :
          /\ IF months = 0
             THEN step_calls < current_month + MaxCalls
             ELSE current_month + months <= MaxMonth
          /\ call' = Call("step", months)
          /\ pc' = "step_months"
          /\ months_left' = months
          /\ months_stepped' = months_stepped + months
          /\ UNCHANGED step_calls
    /\ sim_counts' = NoCounts
    /\ UNCHANGED <<sim, cv_i, run_target, n_shocks>>

\* CircleverseSimulation.step(months), the call: a paused Simulation returns
\* at once, otherwise the loop over range(months) is entered
Step ==
    /\ pc = "idle"
    /\ \E months \in 0..MaxStep :
          /\ IF is_paused \/ months = 0
             THEN step_calls < current_month + MaxCalls
             ELSE /\ current_month + months <= MaxMonth
                  /\ months_stepped + months <= MaxMonth
          /\ call' = Call("step", months)
          /\ IF is_paused
             THEN /\ step_calls' = step_calls + 1
                  /\ UNCHANGED <<pc, months_left, months_stepped>>
             ELSE /\ pc' = "step_months"
                  /\ months_left' = months
                  /\ months_stepped' = months_stepped + months
                  /\ UNCHANGED step_calls
    /\ sim_counts' = NoCounts
    /\ UNCHANGED <<sim, cv_i, run_target, n_shocks>>

\* step: `for _ in range(months)` starts one more month
StepMonthBegin ==
    /\ pc = "step_months"
    /\ months_left > 0
    /\ pc' = "step_cvs"
    /\ cv_i' = 1
    /\ UNCHANGED <<sim, months_left, run_target, call, sim_counts, step_calls,
                   months_stepped, n_shocks>>

\* step: `for circlverse in self.circlverses: circlverse.simulate_month()`
StepCirclverse ==
    /\ pc = "step_cvs"
    /\ cv_i <= Len(circlverses)
    /\ FirstNone(circlverses[cv_i]) = 0
    /\ \E us \in [DOMAIN circlverses[cv_i].cluster_cubes -> USet] :
          circlverses' = [circlverses EXCEPT ![cv_i] =
                            Recorded(CvSimulateMonth(@, us), current_month,
                                     Len(@.cluster_cubes))]
    /\ cv_i' = cv_i + 1
    /\ sim_counts' = [sim_counts EXCEPT ![cv_i] = @ + 1]
    /\ UNCHANGED <<current_month, is_paused, pc, months_left, run_target, call,
                   step_calls, months_stepped, n_shocks>>

\* step that ends the month once the first Circlverse was simulated
StepMonthEnd_AfterFirst ==
    /\ pc = "step_cvs"
    /\ cv_i > Len(circlverses) \/ cv_i > 1
    /\ current_month' = current_month + 1
    /\ months_left' = months_left - 1
    /\ pc' = "step_months"
    /\ cv_i' = 0
    /\ UNCHANGED <<circlverses, is_paused, run_target, call, sim_counts, step_calls,
                   months_stepped, n_shocks>>

\* step: `self.current_month += 1` once every Circlverse was simulated
StepMonthEnd ==
    /\ pc = "step_cvs"
    /\ cv_i > Len(circlverses)
    /\ current_month' = current_month + 1
    /\ months_left' = months_left - 1
    /\ pc' = "step_months"
    /\ cv_i' = 0
    /\ UNCHANGED <<circlverses, is_paused, run_target, call, sim_counts, step_calls,
                   months_stepped, n_shocks>>

\* step returns, to run_until when run_until called it
StepReturn ==
    /\ pc = "step_months"
    /\ months_left = 0
    /\ pc' = IF run_target # <<>> THEN "run_until" ELSE "idle"
    /\ step_calls' = step_calls + 1
    /\ UNCHANGED <<sim, months_left, cv_i, run_target, call, sim_counts,
                   months_stepped, n_shocks>>

\* CircleverseSimulation.run_until(target_month), the call
RunUntil ==
    /\ pc = "idle"
    /\ \E target_month \in 0..MaxMonth :
          /\ run_target' = <<target_month>>
          /\ call' = Call("run_until", target_month)
    /\ pc' = "run_until"
    /\ sim_counts' = NoCounts
    /\ UNCHANGED <<sim, months_left, cv_i, step_calls, months_stepped, n_shocks>>

\* run_until whose loop runs while current_month <= target_month
RunUntilLoop_Through ==
    /\ pc = "run_until"
    /\ IF current_month <= run_target[1] /\ ~is_paused
       THEN /\ pc' = "step_months"
            /\ months_left' = 1
            /\ months_stepped' = months_stepped + 1
            /\ UNCHANGED run_target
       ELSE /\ pc' = "idle"
            /\ run_target' = <<>>
            /\ UNCHANGED <<months_left, months_stepped>>
    /\ UNCHANGED <<sim, cv_i, call, sim_counts, step_calls, n_shocks>>

\* run_until: `while self.current_month < target_month and not self.is_paused:
\* self.step(1)`, one test of the condition
RunUntilLoop ==
    /\ pc = "run_until"
    /\ IF current_month < run_target[1] /\ ~is_paused
       THEN /\ pc' = "step_months"
            /\ months_left' = 1
            /\ months_stepped' = months_stepped + 1
            /\ UNCHANGED run_target
       ELSE /\ pc' = "idle"
            /\ run_target' = <<>>
            /\ UNCHANGED <<months_left, months_stepped>>
    /\ UNCHANGED <<sim, cv_i, call, sim_counts, step_calls, n_shocks>>

\* pause as a toggle of the flag
Pause_Toggle ==
    /\ pc = "idle"
    /\ is_paused' = ~is_paused
    /\ call' = Call("pause", IF is_paused THEN 1 ELSE 0)
    /\ sim_counts' = <<>>
    /\ UNCHANGED <<circlverses, current_month, loop, step_calls, months_stepped,
                   n_shocks>>

\* CircleverseSimulation.pause; call.arg records whether the flag was set
\* already (1) or not (0)
Pause ==
    /\ pc = "idle"
    /\ is_paused' = TRUE
    /\ call' = Call("pause", IF is_paused THEN 1 ELSE 0)
    /\ sim_counts' = <<>>
    /\ UNCHANGED <<circlverses, current_month, loop, step_calls, months_stepped,
                   n_shocks>>

\* CircleverseSimulation.resume; call.arg records whether the flag was set
\* (1) or not (0)
Resume ==
    /\ pc = "idle"
    /\ is_paused' = FALSE
    /\ call' = Call("resume", IF is_paused THEN 1 ELSE 0)
    /\ sim_counts' = <<>>
    /\ UNCHANGED <<circlverses, current_month, loop, step_calls, months_stepped,
                   n_shocks>>

\* reset that clears the histories and keeps the wealth
ResetCirclverse_KeepWealth(cv) ==
    [cv EXCEPT !.cluster_cubes =
                  [j \in DOMAIN @ |->
                      [@[j] EXCEPT !.wealth_history = <<>>,
                                   !.income_history = <<>>,
                                   !.expense_history = <<>>]],
               !.wealth_history = <<>>]

\* reset that also puts every Member of working age back to work
ResetCirclverse_Rehire(cv) ==
    LET rehired(dots) ==
            [d \in DOMAIN dots |->
                [dots[d] EXCEPT !.is_working = dots[d].age >= 18 /\ dots[d].age <= 65]]
    IN  [cv EXCEPT !.cluster_cubes =
                      [j \in DOMAIN @ |->
                          [@[j] EXCEPT !.current_wealth = 0,
                                       !.wealth_history = <<>>,
                                       !.income_history = <<>>,
                                       !.expense_history = <<>>,
                                       !.dots = rehired(@)]],
                   !.wealth_history = <<>>]

\* reset that leaves the income records of the Households
ResetCirclverse_KeepIncome(cv) ==
    [cv EXCEPT !.cluster_cubes =
                  [j \in DOMAIN @ |->
                      [@[j] EXCEPT !.current_wealth = 0,
                                   !.wealth_history = <<>>,
                                   !.expense_history = <<>>]],
               !.wealth_history = <<>>]

\* the effect of reset on one Circlverse
ResetCirclverse(cv) ==
    [cv EXCEPT !.cluster_cubes =
                  [j \in DOMAIN @ |->
                      [@[j] EXCEPT !.current_wealth = 0,
                                   !.wealth_history = <<>>,
                                   !.income_history = <<>>,
                                   !.expense_history = <<>>]],
               !.wealth_history = <<>>]

\* get_global_statistics reporting zeros when there is no Household
GetGlobalStatistics_Zeros(cvs, month) ==
    LET total == SumSeq([i \in DOMAIN cvs |-> SumSeq(Wealths(cvs[i]))])
        count == SumSeq([i \in DOMAIN cvs |-> Len(cvs[i].cluster_cubes)])
        wealths == UNION {{cvs[i].cluster_cubes[j].current_wealth :
                              j \in DOMAIN cvs[i].cluster_cubes} : i \in DOMAIN cvs}
    IN  [total_households |-> count,
         total_circlverses |-> Len(cvs),
         current_month |-> month,
         global_avg_wealth |-> IF count = 0 THEN 0 ELSE total \div count,
         global_total_wealth |-> total,
         global_min_wealth |->
             IF count = 0 THEN 0 ELSE CHOOSE w \in wealths : \A v \in wealths : w <= v,
         global_max_wealth |->
             IF count = 0 THEN 0 ELSE CHOOSE w \in wealths : \A v \in wealths : w >= v]

\* CircleverseSimulation.get_global_statistics: <<>> stands for the empty
\* mapping
GetGlobalStatistics(cvs, month) ==
    LET all_wealths == UNION {{<<i, j>> : j \in DOMAIN cvs[i].cluster_cubes} : i \in DOMAIN cvs}
        wealth(ij) == cvs[ij[1]].cluster_cubes[ij[2]].current_wealth
        total == SumSeq([i \in DOMAIN cvs |-> SumSeq(Wealths(cvs[i]))])
    IN  IF all_wealths = {} THEN <<>>
        ELSE [total_households |-> SumSeq([i \in DOMAIN cvs |-> Len(cvs[i].cluster_cubes)]),
              total_circlverses |-> Len(cvs),
              current_month |-> month,
              global_avg_wealth |-> total \div Cardinality(all_wealths),
              global_total_wealth |-> total,
              global_min_wealth |->
                  CHOOSE w \in {wealth(ij) : ij \in all_wealths} :
                      \A ij \in all_wealths : w <= wealth(ij),
              global_max_wealth |->
                  CHOOSE w \in {wealth(ij) : ij \in all_wealths} :
                      \A ij \in all_wealths : w >= wealth(ij)]

\* reset that clears the Households and leaves the month counter
Reset_KeepMonth ==
    /\ pc = "idle"
    /\ circlverses' = [i \in DOMAIN circlverses |->
                          Restarted(ResetCirclverse(circlverses[i]), 0)]
    /\ call' = Call("reset", 0)
    /\ sim_counts' = <<>>
    /\ step_calls' = 0
    /\ months_stepped' = 0
    /\ UNCHANGED <<current_month, is_paused, loop, n_shocks>>

\* CircleverseSimulation.reset
Reset ==
    /\ pc = "idle"
    /\ current_month' = 0
    /\ circlverses' = [i \in DOMAIN circlverses |->
                          Restarted(ResetCirclverse(circlverses[i]), 0)]
    /\ call' = Call("reset", 0)
    /\ sim_counts' = <<>>
    /\ step_calls' = 0
    /\ months_stepped' = 0
    /\ UNCHANGED <<is_paused, loop, n_shocks>>

\* ClusterCube.apply_economic_shock on a Household of the Simulation, while
\* fewer than max_shocks shocks were applied
ShockWithin(max_shocks) ==
    /\ pc = "idle"
    /\ n_shocks < max_shocks
    /\ \E ij \in CubeIds, shock_type \in ShockTypes, magnitude \in Magnitudes :
       \E pick \in WorkingDots(Cube(ij)) \cup {0} :
          /\ pick = 0 <=> (shock_type # "job_loss" \/ WorkingDots(Cube(ij)) = {})
          /\ circlverses' = [circlverses EXCEPT ![ij[1]].cluster_cubes[ij[2]] =
                                ApplyEconomicShock(@, shock_type, magnitude, pick)]
          /\ call' = Call(shock_type, 0)
    /\ n_shocks' = n_shocks + 1
    /\ sim_counts' = <<>>
    /\ UNCHANGED <<current_month, is_paused, loop, step_calls, months_stepped>>

Shock == ShockWithin(MaxShocks)

Next ==
    \/ AddCirclverse
    \/ AddCube
    \/ Step
    \/ StepMonthBegin
    \/ StepCirclverse
    \/ StepMonthEnd
    \/ StepReturn
    \/ RunUntil
    \/ RunUntilLoop
    \/ Pause
    \/ Resume
    \/ Reset
    \/ Shock

Spec == Init /\ [][Next]_vars

\* the operations that build the Simulation and drive its time: every
\* operation but the shocks, which act on one Household between two calls
\* and touch neither the month, the paused flag nor a running call
NextRun ==
    \/ AddCirclverse
    \/ AddCube
    \/ Step
    \/ StepMonthBegin
    \/ StepCirclverse
    \/ StepMonthEnd
    \/ StepReturn
    \/ RunUntil
    \/ RunUntilLoop
    \/ Pause
    \/ Resume
    \/ Reset

\* a call that was made runs to its return: the interpreter keeps executing
\* the statements of step and run_until (calls themselves may never come)
FairSpec ==
    /\ Init /\ [][NextRun]_vars
    /\ WF_vars(StepMonthBegin)
    /\ WF_vars(StepCirclverse)
    /\ WF_vars(StepMonthEnd)
    /\ WF_vars(StepReturn)
    /\ WF_vars(RunUntilLoop)

\* ------------------------------------------------------ series of shocks
\* a Simulation of one Community holding the first two Households, before
\* any month
InitShocks ==
    /\ \E loc \in LocSet :
          circlverses = <<AddClusterCube(AddClusterCube(CirclverseConfigs[1],
                                                       CubeConfigs[1], loc),
                                        CubeConfigs[2], loc)>>
    /\ current_month = 0
    /\ is_paused = FALSE
    /\ pc = "idle"
    /\ months_left = 0
    /\ cv_i = 0
    /\ run_target = <<>>
    /\ call = [op |-> "init", arg |-> 0, month0 |-> 0]
    /\ sim_counts = <<>>
    /\ step_calls = 0
    /\ months_stepped = 0
    /\ n_shocks = 0

ShockSeries == ShockWithin(MaxShockSeries)

\* shocks, one after another and between steps and resets
NextShocks ==
    \/ ShockSeries
    \/ Step
    \/ StepMonthBegin
    \/ StepCirclverse
    \/ StepMonthEnd
    \/ StepReturn
    \/ Reset

SpecShocks == InitShocks /\ [][NextShocks]_vars

\* --------------------------------------------- Gini coefficient queries
\* initial wealths of the Households of the queried Community, in currency
\* units
GiniWealths == {0, 57, 100, 163}

\* a Community of Households created with the wealths ws
GiniCirclverse(ws) ==
    [Circlverse("G", 100, 10, 10) EXCEPT !.cluster_cubes =
        [k \in DOMAIN ws |->
            [ClusterCube(k, 1, <<Dot(45, UNEMPLOYED, FALSE)>>, 0, 0, ws[k])
                EXCEPT !.location = <<30, 40>>]]]

\* a Simulation of one Community, before any month
InitGini ==
    /\ \E n \in 0..MaxGiniCubes : \E ws \in [1..n -> GiniWealths] :
          circlverses = <<GiniCirclverse(ws)>>
    /\ current_month = 0
    /\ is_paused = FALSE
    /\ pc = "idle"
    /\ months_left = 0
    /\ cv_i = 0
    /\ run_target = <<>>
    /\ call = [op |-> "init", arg |-> 0, month0 |-> 0]
    /\ sim_counts = <<>>
    /\ step_calls = 0
    /\ months_stepped = 0
    /\ n_shocks = 0

\* Circlverse.calculate_gini_coefficient on a Community of the Simulation;
\* call.arg holds what it returned
GiniCall ==
    /\ pc = "idle"
    /\ call.op # "gini"
    /\ \E i \in DOMAIN circlverses :
          call' = [op |-> "gini", arg |-> CalculateGiniCoefficient(circlverses[i]),
                   month0 |-> current_month, of |-> i]
    /\ UNCHANGED <<sim, loop, sim_counts, step_calls, months_stepped, n_shocks>>

NextGini == GiniCall

SpecGini == InitGini /\ [][NextGini]_vars

\* ----------------------------------------------------- statistics queries
\* initial wealths of the Households of the queried Communities, in
\* currency units
StatWealths == {0, 100, 1200}

\* the lists of at most MaxStatCubes such wealths
StatLists == UNION {[1..n -> StatWealths] : n \in 0..MaxStatCubes}

\* a Simulation of no, one or two Communities, before any month
InitStats ==
    /\ \E k \in 0..2 : \E wss \in [1..k -> StatLists] :
          circlverses = [i \in 1..k |-> GiniCirclverse(wss[i])]
    /\ current_month = 0
    /\ is_paused = FALSE
    /\ pc = "idle"
    /\ months_left = 0
    /\ cv_i = 0
    /\ run_target = <<>>
    /\ call = [op |-> "init", arg |-> 0, month0 |-> 0]
    /\ sim_counts = <<>>
    /\ step_calls = 0
    /\ months_stepped = 0
    /\ n_shocks = 0

\* Circlverse.get_wealth_distribution on Community call.of; call.arg holds
\* what it returned
WealthDistributionCall ==
    /\ pc = "idle"
    /\ \E i \in DOMAIN circlverses :
          call' = [op |-> "get_wealth_distribution",
                   arg |-> GetWealthDistribution(circlverses[i]),
                   month0 |-> current_month, of |-> i]
    /\ UNCHANGED <<sim, loop, sim_counts, step_calls, months_stepped, n_shocks>>

\* CircleverseSimulation.get_global_statistics; call.arg holds what it
\* returned
GlobalStatisticsCall ==
    /\ pc = "idle"
    /\ call' = [op |-> "get_global_statistics",
                arg |-> GetGlobalStatistics(circlverses, current_month),
                month0 |-> current_month, of |-> 0]
    /\ UNCHANGED <<sim, loop, sim_counts, step_calls, months_stepped, n_shocks>>

NextStats ==
    \/ WealthDistributionCall
    \/ GlobalStatisticsCall
    \/ GiniCall

SpecStats == InitStats /\ [][NextStats]_vars

\* ------------------------------------- manually configured Households
\* str.lower on the occupation names of the configurations below
Lower(name) ==
    CASE name = "Retail" -> "retail"
      [] name = "SERVICE" -> "service"
      [] OTHER -> name

\* OccupationType(occ_name.lower()), UNEMPLOYED on ValueError
ParseOccupation(occ_name) ==
    IF Lower(occ_name) \in OccupationType THEN Lower(occ_name) ELSE UNEMPLOYED

\* s[:n]
Prefix(s, n) == SubSeq(s, 1, IF n < Len(s) THEN n ELSE Len(s))

\* one entry of household_configs (savings_rate in hundredths)
HouseholdConfig(num_dots, num_dependents, occupations, savings_rate, initial_wealth) ==
    [num_dots |-> num_dots, num_dependents |-> num_dependents,
     occupations |-> occupations, savings_rate |-> savings_rate,
     initial_wealth |-> initial_wealth]

\* the configurations a manual Community is built from: no Member at all,
\* fewer occupations than num_dots, more occupations than num_dots, no
\* occupations, a name that is no occupation
HouseholdConfigs ==
    {HouseholdConfig(0, 0, <<>>, 15, 0),
     HouseholdConfig(2, 1, <<"professional">>, 15, 0),
     HouseholdConfig(1, 0, <<"Retail", "service">>, 20, 100),
     HouseholdConfig(1, 0, <<>>, 15, 0),
     HouseholdConfig(2, 0, <<"plumber", "SERVICE">>, 15, 0)}

\* draws of random.randint(25, 65), of random.randint(0, 80) and of
\* random.choice(occupations)
FirstAges == {30, 60}
OtherAges == {10, 40}
Choices == {SKILLED_TRADE, UNEMPLOYED}

\* the draws made while one Household is built: ages[j] and occupations[j]
\* for dot j
Draws ==
    {[ages |-> <<a1, a2>>, occupations |-> <<o1, o2>>] :
        a1 \in FirstAges, a2 \in OtherAges, o1 \in Choices, o2 \in Choices}

\* f"{circlverse_id}_HH{i+1:03d}" for circlverse_id "M"
HouseholdId(i) == <<"M_HH001", "M_HH002", "M_HH003">>[i]

\* create_manual_circlverse, the dots of one Household: one per name of
\* occupations_list[:num_dots]
ManualDots(config, ages) ==
    LET occupations_list == Prefix(config.occupations, config.num_dots)
    IN  [j \in 1..Len(occupations_list) |->
            LET occupation == ParseOccupation(occupations_list[j])
            IN  Dot(ages[j], occupation,
                    ages[j] >= 18 /\ ages[j] <= 65 /\ occupation # UNEMPLOYED)]

\* create_manual_circlverse, the Household of entry i:
\* ClusterCube(..., dots=dots if dots else None, ...)
ManualCube(i, config, draw) ==
    LET dots == ManualDots(config, draw.ages)
    IN  ClusterCubePostInit(HouseholdId(i), config.num_dots,
                            IF dots # <<>> THEN dots ELSE None,
                            config.num_dependents, config.savings_rate,
                            config.initial_wealth, draw.ages, draw.occupations)

\* create_manual_circlverse("M", household_configs) after its first n entries
RECURSIVE CreateManualCirclverse(_, _, _, _)
CreateManualCirclverse(n, household_configs, draws, loc) ==
    IF n = 0 THEN Circlverse("M", 100, 10, 10)
    ELSE AddClusterCube(CreateManualCirclverse(n - 1, household_configs, draws, loc),
                        ManualCube(n, household_configs[n], draws[n]), loc)

\* the number of Members a Household holds
MembersHeld(cube) == IF IsNone(cube.dots) THEN 0 ELSE Len(cube.dots)

\* a Simulation of one manually configured Community, to which a Household
\* constructed as ClusterCube(cube_id="D", num_dots=0) may have been added
InitManual ==
    /\ \E n \in 1..MaxManualCubes, direct \in BOOLEAN, loc \in LocSet :
       \E household_configs \in [1..n -> HouseholdConfigs], draws \in [1..n -> Draws] :
          LET cv == CreateManualCirclverse(n, household_configs, draws, loc)
              d == ClusterCubePostInit("D", 0, <<>>, 0, 15, 0, <<>>, <<>>)
          IN  circlverses = <<IF direct THEN AddClusterCube(cv, d, loc) ELSE cv>>
    /\ current_month = 0
    /\ is_paused = FALSE
    /\ pc = "idle"
    /\ months_left = 0
    /\ cv_i = 0
    /\ run_target = <<>>
    /\ call = [op |-> "init", arg |-> 0, month0 |-> 0]
    /\ sim_counts = <<>>
    /\ step_calls = 0
    /\ months_stepped = 0
    /\ n_shocks = 0

\* step: circlverse.simulate_month() raises TypeError in get_total_income of
\* a Household whose dots are None; the exception leaves step (and
\* run_until) and reaches the caller, the month is not counted
StepCirclverseRaises ==
    /\ pc = "step_cvs"
    /\ cv_i <= Len(circlverses)
    /\ FirstNone(circlverses[cv_i]) # 0
    /\ \E us \in [DOMAIN circlverses[cv_i].cluster_cubes -> USet] :
          circlverses' = [circlverses EXCEPT ![cv_i] =
                            Recorded(CvSimulateMonthRaises(@, us), current_month,
                                     FirstNone(@) - 1)]
    /\ pc' = "idle"
    /\ months_left' = 0
    /\ cv_i' = 0
    /\ run_target' = <<>>
    /\ call' = [op |-> call.op, arg |-> call.arg, month0 |-> call.month0,
                raised |-> "TypeError"]
    /\ UNCHANGED <<current_month, is_paused, sim_counts, step_calls, months_stepped,
                   n_shocks>>

\* ClusterCube.get_total_income on Household call.of; call.arg holds what it
\* returned, call.raised the exception when it raised
TotalIncomeCall ==
    /\ pc = "idle"
    /\ \E ij \in CubeIds :
          call' = IF IsNone(Cube(ij).dots)
                  THEN [op |-> "get_total_income", arg |-> 0,
                        month0 |-> current_month, of |-> ij, raised |-> "TypeError"]
                  ELSE [op |-> "get_total_income",
                        arg |-> GetTotalIncome(Cube(ij).dots),
                        month0 |-> current_month, of |-> ij]
    /\ UNCHANGED <<sim, loop, sim_counts, step_calls, months_stepped, n_shocks>>

\* a manually configured Community stepped, reset and queried
NextManual ==
    \/ Step
    \/ StepMonthBegin
    \/ StepCirclverse
    \/ StepCirclverseRaises
    \/ StepMonthEnd
    \/ StepReturn
    \/ Reset
    \/ TotalIncomeCall
    \/ GlobalStatisticsCall

SpecManual == InitManual /\ [][NextManual]_vars

\* ------------------------------------------------- income of one Member
\* ages on both sides of every threshold of get_monthly_income and of the
\* working age
IncomeAges == {0, 17, 18, 24, 25, 50, 51, 65, 66, 80}

\* a Simulation of one Community of one Household of one Member, of any
\* age, occupation and working state
InitIncome ==
    /\ \E age \in IncomeAges, occupation \in OccupationType, is_working \in BOOLEAN,
          loc \in LocSet :
          circlverses =
             <<AddClusterCube(CirclverseConfigs[1],
                              ClusterCube("H", 1, <<Dot(age, occupation, is_working)>>,
                                          0, 15, 0),
                              loc)>>
    /\ current_month = 0
    /\ is_paused = FALSE
    /\ pc = "idle"
    /\ months_left = 0
    /\ cv_i = 0
    /\ run_target = <<>>
    /\ call = [op |-> "init", arg |-> 0, month0 |-> 0]
    /\ sim_counts = <<>>
    /\ step_calls = 0
    /\ months_stepped = 0
    /\ n_shocks = 0

\* Dot.get_monthly_income on Member call.of[3] of Household call.of[1..2];
\* call.arg holds what it returned
MonthlyIncomeCall ==
    /\ pc = "idle"
    /\ \E ij \in CubeIds :
       \E d \in DOMAIN Cube(ij).dots :
          call' = [op |-> "get_monthly_income",
                   arg |-> GetMonthlyIncome(Cube(ij).dots[d]),
                   month0 |-> current_month, of |-> <<ij[1], ij[2], d>>]
    /\ UNCHANGED <<sim, loop, sim_counts, step_calls, months_stepped, n_shocks>>

NextIncome == MonthlyIncomeCall

SpecIncome == InitIncome /\ [][NextIncome]_vars

\* ------------------------------------------------------- tabular export
\* export_to_csv, the row written for one month and one Household
ExportRow(month, cv, cube) ==
    [month |-> month,
     circlverse_id |-> cv.circlverse_id,
     cube_id |-> cube.cube_id,
     wealth |-> cube.wealth_history[month + 1],
     income |-> IF month < Len(cube.income_history)
                THEN cube.income_history[month + 1] ELSE 0,
     expenses |-> IF month < Len(cube.expense_history)
                  THEN cube.expense_history[month + 1] ELSE 0,
     num_dots |-> cube.num_dots,
     num_dependents |-> cube.num_dependents,
     location_x |-> cube.location[1],
     location_y |-> cube.location[2]]

\* export_to_csv, `for cube in cv.cluster_cubes` from household j on: a row
\* is written only `if month < len(cube.wealth_history)`
RECURSIVE ExportCubes(_, _, _)
ExportCubes(month, cv, j) ==
    IF j > Len(cv.cluster_cubes) THEN <<>>
    ELSE (IF month < Len(cv.cluster_cubes[j].wealth_history)
          THEN <<ExportRow(month, cv, cv.cluster_cubes[j])>>
          ELSE <<>>) \o ExportCubes(month, cv, j + 1)

\* export_to_csv, `for cv in self.circlverses` from Circlverse i on
RECURSIVE ExportCirclverses(_, _, _)
ExportCirclverses(month, cvs, i) ==
    IF i > Len(cvs) THEN <<>>
    ELSE ExportCubes(month, cvs[i], 1) \o ExportCirclverses(month, cvs, i + 1)

\* export_to_csv, `for month in range(self.current_month)` from month on
RECURSIVE ExportMonths(_, _, _)
ExportMonths(month, cvs, months) ==
    IF month >= months THEN <<>>
    ELSE ExportCirclverses(month, cvs, 1) \o ExportMonths(month + 1, cvs, months)

\* CircleverseSimulation.export_to_csv: the data rows handed to the writer,
\* in the order written (the header row is left out)
ExportToCsv(cvs, months) == ExportMonths(0, cvs, months)

\* CircleverseSimulation.export_to_csv; call.arg holds the rows written
ExportCall ==
    /\ pc = "idle"
    /\ call' = [op |-> "export_to_csv",
                arg |-> ExportToCsv(circlverses, current_month),
                month0 |-> current_month]
    /\ UNCHANGED <<sim, loop, sim_counts, step_calls, months_stepped, n_shocks>>

\* a Simulation built, stepped, reset and exported
NextExport ==
    \/ AddCirclverse
    \/ AddCube
    \/ Step
    \/ StepMonthBegin
    \/ StepCirclverse
    \/ StepMonthEnd
    \/ StepReturn
    \/ Reset
    \/ ExportCall

SpecExport == Init /\ [][NextExport]_vars

\* ------------------------------------------------------------ transitions
\* the step that runs Circlverse.simulate_month on Community cv_i
StepCvTaken == pc = "step_cvs" /\ cv_i' = cv_i + 1

\* the step that is the call op made on an idle Simulation
CallTaken(op) == pc = "idle" /\ call'.op = op /\ vars' # vars

\* net income of the month recorded at index k of a Household's histories
NetAt(cube, k) == cube.income_history[k] - cube.expense_history[k]

\* ------------------------------------------------------------------ C1
HistoriesAligned ==
    \A ij \in CubeIds :
        /\ Len(Cube(ij).wealth_history) = Len(Cube(ij).income_history)
        /\ Len(Cube(ij).wealth_history) = Len(Cube(ij).expense_history)

OneEntryEach(before, after) ==
    /\ Len(after.wealth_history) = Len(before.wealth_history) + 1
    /\ Len(after.income_history) = Len(before.income_history) + 1
    /\ Len(after.expense_history) = Len(before.expense_history) + 1

\* C1: in every reachable state the three histories of every Household have
\* the same length, and every Household.simulate_month call (one per
\* Household of the Community being simulated) appends exactly one entry to
\* each of them, whatever the sign of the net income.
C1_HistoriesInStep ==
    /\ []HistoriesAligned
    /\ [][StepCvTaken =>
            \A j \in DOMAIN circlverses[cv_i].cluster_cubes :
                OneEntryEach(circlverses[cv_i].cluster_cubes[j],
                             circlverses'[cv_i].cluster_cubes[j])]_vars

\* a Household with a month of zero net income and a month of negative net
\* income, beside a Household with a month of positive net income
C1_Witness ==
    /\ \E ij \in CubeIds :
          /\ Len(Cube(ij).wealth_history) = 2
          /\ \E k \in 1..2 : NetAt(Cube(ij), k) = 0
          /\ \E k \in 1..2 : NetAt(Cube(ij), k) < 0
    /\ \E ij \in CubeIds :
          /\ Len(Cube(ij).wealth_history) >= 1
          /\ NetAt(Cube(ij), 1) > 0

C3_PausedStepNoOp ==
    [][/\ (CallTaken("step") /\ is_paused => sim' = sim /\ loop' = loop)
       /\ (CallTaken("resume") =>
              /\ current_month' = current_month
              /\ circlverses' = circlverses
              /\ loop' = loop
              /\ pc' = "idle" /\ months_left' = 0 /\ run_target' = <<>>)]_vars

\* a step(2) was made on a paused Simulation that had run a month
C3_Witness ==
    /\ pc = "idle"
    /\ call.op = "step" /\ call.arg = 2
    /\ is_paused
    /\ current_month = 1
    /\ CubeCount = 2

\* ------------------------------------------------------------------ C4
\* C4: a reset() of a Simulation that holds a Household leaves
\* global_statistics() with current_month, mean, total, min and max all 0,
\* and with the Household count, the Community count and every Community's
\* economic multiplier and cost-of-living index as they were before.
C4_ResetStatistics ==
    [][CallTaken("reset") /\ CubeCount >= 1 =>
        LET before == GetGlobalStatistics(circlverses, current_month)
            after == GetGlobalStatistics(circlverses', current_month')
        IN  /\ after # <<>>
            /\ after.current_month = 0
            /\ after.global_avg_wealth = 0
            /\ after.global_total_wealth = 0
            /\ after.global_min_wealth = 0
            /\ after.global_max_wealth = 0
            /\ after.total_households = before.total_households
            /\ after.total_circlverses = before.total_circlverses
            /\ Len(circlverses') = Len(circlverses)
            /\ \A i \in DOMAIN circlverses :
                  /\ circlverses'[i].economic_multiplier = circlverses[i].economic_multiplier
                  /\ circlverses'[i].cost_of_living_index =
                         circlverses[i].cost_of_living_index]_vars

\* reset() was called after months were stepped (a Community still carries
\* the total of its last month) and after a shock, on a Simulation holding
\* the Household created with wealth 500
C4_Witness ==
    /\ pc = "idle"
    /\ call.op = "reset"
    /\ call.month0 = 2
    /\ n_shocks = 1
    /\ CubeCount = 2
    /\ \E i \in DOMAIN circlverses : circlverses[i].total_wealth > 0

\* ------------------------------------------------------------------ C5
SameButMoney(before, after) ==
    /\ after.cube_id = before.cube_id
    /\ after.num_dots = before.num_dots
    /\ after.dots = before.dots
    /\ after.num_dependents = before.num_dependents
    /\ after.location = before.location
    /\ after.savings_rate = before.savings_rate
    /\ after.monthly_expenses = before.monthly_expenses

\* C5: reset() leaves every Member (occupation, is-working), every
\* Household's expense baseline, savings rate and location, every
\* Community's parameters and membership list and the paused flag as they
\* were.
C5_ResetFrame ==
    [][CallTaken("reset") =>
        /\ is_paused' = is_paused
        /\ Len(circlverses') = Len(circlverses)
        /\ \A i \in DOMAIN circlverses :
              /\ circlverses'[i].circlverse_id = circlverses[i].circlverse_id
              /\ circlverses'[i].radius = circlverses[i].radius
              /\ circlverses'[i].economic_multiplier = circlverses[i].economic_multiplier
              /\ circlverses'[i].cost_of_living_index = circlverses[i].cost_of_living_index
              /\ Len(circlverses'[i].cluster_cubes) = Len(circlverses[i].cluster_cubes)
              /\ \A j \in DOMAIN circlverses[i].cluster_cubes :
                    SameButMoney(circlverses[i].cluster_cubes[j],
                                 circlverses'[i].cluster_cubes[j])]_vars

\* reset() was called on a paused Simulation after a month was stepped and a
\* job_loss shock had made a Member of working age unemployed: the Member is
\* still unemployed and not working
C5_Witness ==
    /\ pc = "idle"
    /\ call.op = "reset"
    /\ call.month0 >= 1
    /\ is_paused
    /\ n_shocks = 1
    /\ \E ij \in CubeIds : \E d \in DOMAIN Cube(ij).dots :
          /\ Cube(ij).dots[d].age = 55
          /\ Cube(ij).dots[d].occupation = UNEMPLOYED
          /\ ~Cube(ij).dots[d].is_working
          /\ Cube(ij).location # <<0, 0>>

\* ------------------------------------------------------------------ C6
\* C6: right after Circlverse.simulate_month on a Community with at least
\* one Household, total_wealth is the sum of the Households' current wealth,
\* average_wealth is total_wealth / household_count, and that average is the
\* one entry the call appended to the Community's wealth history.
C6_MetricsAfterMonth ==
    [][StepCvTaken /\ circlverses[cv_i].cluster_cubes # <<>> =>
        LET before == circlverses[cv_i]
            after == circlverses'[cv_i]
            n == Len(after.cluster_cubes)
        IN  /\ after.total_wealth =
                  SumSeq([j \in 1..n |-> after.cluster_cubes[j].current_wealth])
            /\ after.average_wealth * n <= after.total_wealth
            /\ after.total_wealth < (after.average_wealth + 1) * n
            /\ after.wealth_history = Append(before.wealth_history, after.average_wealth)]_vars

\* a Community of two Households of different wealth was just simulated for
\* the second time
C6_Witness ==
    /\ pc = "step_cvs"
    /\ cv_i >= 2
    /\ Len(circlverses[cv_i - 1].cluster_cubes) = 2
    /\ Len(circlverses[cv_i - 1].wealth_history) = 2
    /\ circlverses[cv_i - 1].cluster_cubes[1].current_wealth
          # circlverses[cv_i - 1].cluster_cubes[2].current_wealth
    /\ circlverses[cv_i - 1].average_wealth > 0

\* ------------------------------------------------------------------ C7
\* the Gini formula over the reals, as numerator and denominator
RECURSIVE GiniNumerator(_, _)
GiniNumerator(w, i) ==
    IF i > Len(w) THEN 0
    ELSE w[i] * (2 * i - Len(w) - 1) + GiniNumerator(w, i + 1)

\* the float `got` is the number `exact` up to the rounding of n operations
\* on magnitudes of at most `size`
WithinRounding(got, exact, n, size) ==
    Abs(got - exact) * 2 ^ FloatBits <= 2 * n * size

\* C7: gini_coefficient() returns exactly 0 for a Community with fewer than
\* 2 Households, with total wealth exactly 0, or with all Households holding
\* identical wealth; otherwise it returns the sum over the ascending-sorted
\* wealths of w[i]*(2(i+1) - n - 1) divided by n times the total wealth (to
\* the rounding of the float operations), and exactly 200/300 for the wealths
\* [0, 0, 100].
C7_GiniAsClaimed ==
    call.op = "gini" =>
        LET w == Sorted(Wealths(circlverses[1]))
            n == Len(w)
            total == SumSeq(w)
            got == call.arg
        IN  IF n < 2 \/ total = 0 \/ \A i \in 1..n : w[i] = w[1]
            THEN got.num = 0
            ELSE /\ WithinRounding(got.num, GiniNumerator(w, 1), n, n * total)
                 /\ WithinRounding(got.den, n * total, n, n * total)
                 /\ w = <<0, 0, 100 * Scale>> => got.num * 300 = got.den * 200

\* the coefficient of five Households of identical wealth was taken, and it
\* is not 0
C7_Witness ==
    /\ call.op = "gini"
    /\ Len(circlverses[1].cluster_cubes) = 5
    /\ \A j \in 1..5 : circlverses[1].cluster_cubes[j].current_wealth = 163 * Scale
    /\ call.arg.num # 0

\* ------------------------------------------------------------------ C8
\* the month of one Household written out: cv holds the parameters of its
\* Community, u is the expense draw in tenths
MonthAsSpecified(before, after, cv, u) ==
    LET income == (GetTotalIncome(before.dots) * cv.economic_multiplier) \div 10
        expenses == (before.monthly_expenses * cv.cost_of_living_index * (10 + u)) \div 100
        net == income - expenses
        savings == IF net > 0 THEN (net * before.savings_rate) \div 100 ELSE 0
    IN  /\ after.current_wealth = before.current_wealth + savings
        /\ after.wealth_history = Append(before.wealth_history, after.current_wealth)
        /\ after.income_history = Append(before.income_history, income)
        /\ after.expense_history = Append(before.expense_history, expenses)

\* the first month of the Household of a professional aged 35 and an
\* unemployed Member aged 32, with U = 0
ScenarioMonth(after) ==
    /\ Last(after.income_history) = 9600 * Scale
    /\ Last(after.expense_history) = 3600 * Scale
    /\ NetAt(after, Len(after.income_history)) = 6000 * Scale
    /\ after.current_wealth = 1200 * Scale
    /\ Last(after.wealth_history) = 1200 * Scale

NonDecreasing(s) == \A k \in 1..(Len(s) - 1) : s[k] <= s[k + 1]

InRunUntil == pc # "idle" /\ call.op = "run_until"

\* the run_until call that is running, or that returned last, had nothing to
\* do when it was made
RunUntilNoOp == is_paused \/ call.arg <= call.month0

\* C10: every run_until(target_month) call returns; made on a paused
\* Simulation or with target_month <= current_month it changes nothing;
\* otherwise it returns with current_month = target_month, every Community
\* simulated exactly target_month - (current_month at the call) times, also
\* when there is no Community.
C10_RunUntil ==
    /\ InRunUntil ~> (pc = "idle")
    /\ [][CallTaken("run_until") \/ (InRunUntil /\ RunUntilNoOp) => sim' = sim]_vars
    /\ []((pc = "idle" /\ call.op = "run_until") =>
            /\ DOMAIN sim_counts = DOMAIN circlverses
            /\ IF RunUntilNoOp
               THEN /\ current_month = call.month0
                    /\ \A i \in DOMAIN circlverses : sim_counts[i] = 0
               ELSE /\ current_month = call.arg
                    /\ \A i \in DOMAIN circlverses :
                          sim_counts[i] = call.arg - call.month0)

\* run_until(2) made at month 0 on two Communities with a Household has
\* returned at month 2, each Community simulated twice
C10_Witness ==
    /\ pc = "idle"
    /\ call = [op |-> "run_until", arg |-> 2, month0 |-> 0]
    /\ ~is_paused
    /\ current_month = 2
    /\ sim_counts = <<2, 2>>
    /\ CubeCount >= 1
    /\ Len(circlverses[1].wealth_history) = 2

\* ------------------------------------------------------------------ C11
\* months completed so far by the call that is running or returned last
MonthsDone == current_month - call.month0

\* C11: a step(n) call that starts while the Simulation is not paused
\* returns, and returns with current_month increased by exactly n and every
\* Community simulated exactly n times; within a month the Communities are
\* simulated in membership order, and the month counter is incremented only
\* once all of them were; pause() changes nothing a call before it did.
C11_StepCompletes ==
    /\ (pc # "idle" /\ call.op = "step") ~> (pc = "idle")
    /\ []((pc = "idle" /\ call.op = "step" /\ ~is_paused) =>
            /\ MonthsDone = call.arg
            /\ \A i \in DOMAIN circlverses : sim_counts[i] = call.arg)
    /\ []((pc = "step_cvs") =>
            \A i \in DOMAIN circlverses :
                sim_counts[i] = MonthsDone + (IF i < cv_i THEN 1 ELSE 0))
    /\ [][current_month' = current_month + 1 =>
            \A i \in DOMAIN circlverses : sim_counts[i] = MonthsDone + 1]_vars
    /\ [][CallTaken("pause") =>
            current_month' = current_month /\ circlverses' = circlverses /\ loop' = loop]_vars

\* step(2) made at month 0 on a running Simulation of two Communities has
\* returned: the month is 2 and each Community was simulated twice
C11_Witness ==
    /\ pc = "idle"
    /\ call = [op |-> "step", arg |-> 2, month0 |-> 0]
    /\ ~is_paused
    /\ current_month = 2
    /\ sim_counts = <<2, 2>>
    /\ CubeCount = 2

\* ------------------------------------------------------------------ C12
\* C12: pause() and resume() are idempotent and touch only the paused flag:
\* pause() leaves is_paused true and resume() leaves it false whatever it was,
\* so a second pause() (resume()) leaves the state of the Simulation as the
\* first left it; neither changes current_month, a wealth or a history; a new
\* Simulation is not paused.
C12_PauseResumeIdempotent ==
    /\ [](call.op = "init" => ~is_paused)
    /\ [][CallTaken("pause") =>
            /\ is_paused'
            /\ current_month' = current_month /\ circlverses' = circlverses
            /\ loop' = loop
            /\ is_paused => sim' = sim]_vars
    /\ [][CallTaken("resume") =>
            /\ ~is_paused'
            /\ current_month' = current_month /\ circlverses' = circlverses
            /\ loop' = loop
            /\ ~is_paused => sim' = sim]_vars

\* pause() was called on a Simulation that was paused already, after a month
\* in which a Household gained wealth
C12_Witness ==
    /\ pc = "idle"
    /\ call.op = "pause" /\ call.arg = 1
    /\ is_paused
    /\ current_month >= 1
    /\ \E ij \in CubeIds :
          /\ Cube(ij).wealth_history # <<>>
          /\ Cube(ij).current_wealth > 0

\* ------------------------------------------------------------------ C13
\* what a job_loss shock may make of a Household
JobLossEffect(before, after) ==
    IF \E d \in DOMAIN before.dots :
          before.dots[d].is_working /\ before.dots[d].occupation # UNEMPLOYED
    THEN \E d \in DOMAIN before.dots :
            /\ before.dots[d].is_working /\ before.dots[d].occupation # UNEMPLOYED
            /\ after = [before EXCEPT !.dots[d] = Dot(before.dots[d].age, UNEMPLOYED, FALSE)]
    ELSE after = before

\* C13: a job_loss shock makes exactly one Member of the Household, one that
\* was working with an occupation other than unemployed, unemployed and not
\* working, and changes nothing else (other Members, wealth, histories,
\* baseline, other Households, month); with no such Member it changes
\* nothing; and no later step, shock or reset gives a Member that is
\* unemployed an occupation, or one that is not working work, so that a
\* Household's total income never increases.
C13_JobLoss ==
    /\ [][CallTaken("job_loss") =>
            /\ current_month' = current_month /\ is_paused' = is_paused /\ loop' = loop
            /\ \E ij \in CubeIds :
                  /\ JobLossEffect(Cube(ij), circlverses'[ij[1]].cluster_cubes[ij[2]])
                  /\ circlverses' = [circlverses EXCEPT ![ij[1]].cluster_cubes[ij[2]] =
                                        circlverses'[ij[1]].cluster_cubes[ij[2]]]]_vars
    /\ [][\A ij \in CubeIds :
            LET before == Cube(ij)
                after == circlverses'[ij[1]].cluster_cubes[ij[2]]
            IN  /\ DOMAIN after.dots = DOMAIN before.dots
                /\ \A d \in DOMAIN before.dots :
                      /\ before.dots[d].occupation = UNEMPLOYED
                            => after.dots[d].occupation = UNEMPLOYED
                      /\ ~before.dots[d].is_working => ~after.dots[d].is_working
                /\ GetTotalIncome(after.dots) <= GetTotalIncome(before.dots)]_vars

\* the professional lost the job after the first month, a month without
\* income followed, and a second job_loss shock found nobody to dismiss in
\* that Household (the other Household still has both its earners)
C13_Witness ==
    /\ pc = "idle"
    /\ call.op = "job_loss"
    /\ n_shocks = 2
    /\ Len(circlverses[1].cluster_cubes) = 2
    /\ LET h1 == circlverses[1].cluster_cubes[1]
           h2 == circlverses[1].cluster_cubes[2]
       IN  /\ h1.dots = <<Dot(35, UNEMPLOYED, FALSE), Dot(32, UNEMPLOYED, FALSE)>>
           /\ Len(h1.income_history) = 2
           /\ h1.income_history[1] > 0
           /\ h1.income_history[2] = 0
           /\ h1.current_wealth = Last(h1.wealth_history)
           /\ h2.dots = CubeConfigs[2].dots
           /\ h2.current_wealth = Last(h2.wealth_history)

\* ------------------------------------------------------------------ C14
\* C14: apply_economic_shock with a kind other than job_loss, medical or
\* windfall returns without error and changes nothing, for any magnitude:
\* the Household's wealth, Members, histories and baseline, every other
\* Household and the Simulation are as before.
C14_UnknownShockNoOp ==
    [][(pc = "idle" /\ call'.op \in ShockTypes \ {"job_loss", "medical", "windfall"}
            /\ vars' # vars)
          => sim' = sim /\ loop' = loop]_vars

\* a shock of the unknown kind "tax" came second, after a windfall on a
\* Household that had saved in a stepped month: the wealth still differs
\* from the last recorded one by the windfall alone
C14_Witness ==
    /\ pc = "idle"
    /\ call.op = "tax"
    /\ n_shocks = 2
    /\ \E ij \in CubeIds :
          /\ Cube(ij).wealth_history # <<>>
          /\ Last(Cube(ij).wealth_history) > 0
          /\ Cube(ij).current_wealth = Last(Cube(ij).wealth_history) + 10000 * Scale

\* ------------------------------------------------------------------ C15
\* C15: the statistics queries return without error on empty collections:
\* wealth_distribution() of a Community without Households and
\* global_statistics() of a Simulation without Communities, or whose
\* Communities hold no Household, return the empty mapping, and
\* gini_coefficient() of a Community without Households returns 0.
C15_EmptyQueries ==
    /\ (call.op = "get_wealth_distribution" /\ circlverses[call.of].cluster_cubes = <<>>)
          => call.arg = <<>>
    /\ (call.op = "get_global_statistics" /\ CubeCount = 0) => call.arg = <<>>
    /\ (call.op = "gini" /\ circlverses[call.of].cluster_cubes = <<>>)
          => call.arg = Quotient(0, 1)

\* global_statistics() was asked of a Simulation of two Communities that
\* hold no Household
C15_Witness ==
    /\ call.op = "get_global_statistics"
    /\ Len(circlverses) = 2
    /\ \A i \in 1..2 : circlverses[i].cluster_cubes = <<>>
    /\ call.arg = <<>>

\* ------------------------------------------------------------------ C20
\* a <= q <= b for the quotient q
Between(a, q, b) == a * q.den <= q.num /\ q.num <= b * q.den

\* C20: wealth_distribution() of a Community with n >= 1 Households returns
\* the least and the greatest current wealth as min and max, their sum as
\* total (to the rounding of the float additions), total / n as mean, and as
\* median the element at index n // 2 of the wealths in ascending order (the
\* upper middle one for even n), so that min <= median <= max and
\* min <= mean <= max.
C20_DistributionAsClaimed ==
    (call.op = "get_wealth_distribution" /\ circlverses[call.of].cluster_cubes # <<>>) =>
        LET w == Sorted(Wealths(circlverses[call.of]))
            n == Len(w)
            got == call.arg
        IN  /\ got.min = w[1]
            /\ got.max = w[n]
            /\ WithinRounding(got.total, SumSeq(w), n, SumSeq(w))
            /\ got.mean = FloatDiv(got.total, n)
            /\ got.median = w[n \div 2 + 1]
            /\ n % 2 = 0 => got.median = w[n \div 2 + 1] /\ got.median >= w[n \div 2]
            /\ got.min <= got.median /\ got.median <= got.max
            /\ Between(got.min, got.mean, got.max)

\* the distribution of three Households of identical wealth was taken, and
\* its mean is not that wealth
C20_Witness ==
    /\ call.op = "get_wealth_distribution"
    /\ Len(circlverses[call.of].cluster_cubes) = 3
    /\ \A j \in 1..3 :
          circlverses[call.of].cluster_cubes[j].current_wealth = 1200 * Scale
    /\ call.arg.min = call.arg.max
    /\ call.arg.mean # Quotient(1200 * Scale, 1)

\* C16: a Household with member count 0 never aborts the simulation, whether
\* it was constructed directly or through a manual configuration with
\* num_dots = 0 and no occupations: no call raises, its total income is 0,
\* and when a step has returned each of its histories holds one entry per
\* month of the Simulation.
C16_ZeroMemberNeverAborts ==
    /\ "raised" \notin DOMAIN call
    /\ \A ij \in CubeIds :
          Cube(ij).num_dots = 0 =>
             /\ (call.op = "get_total_income" /\ call.of = ij) => call.arg = 0
             /\ pc = "idle" =>
                   /\ Len(Cube(ij).wealth_history) = current_month
                   /\ Len(Cube(ij).income_history) = current_month
                   /\ Len(Cube(ij).expense_history) = current_month

\* a step of one month on a manual Community of a Household with a Member
\* and a Household configured with num_dots = 0 has raised: the first
\* Household had its month, the month was not counted and the Community
\* recorded nothing
C16_Witness ==
    /\ call.op = "step" /\ "raised" \in DOMAIN call
    /\ pc = "idle" /\ current_month = 0
    /\ Len(circlverses[1].cluster_cubes) = 2
    /\ Cube(<<1, 1>>).num_dots = 1
    /\ Len(Cube(<<1, 1>>).wealth_history) = 1
    /\ Cube(<<1, 2>>).num_dots = 0
    /\ IsNone(Cube(<<1, 2>>).dots)
    /\ Cube(<<1, 2>>).wealth_history = <<>>
    /\ circlverses[1].wealth_history = <<>>

\* C17: in every reachable state the expense baseline of a Household is
\* (1500 + 400k) + (300 + 150k) + (500 + 100k), k being the number of
\* Members it holds plus its dependent count, for Households built from
\* manual configurations as for the others.
C17_BaselineFromMembersHeld ==
    \A ij \in CubeIds :
        LET k == MembersHeld(Cube(ij)) + Cube(ij).num_dependents
        IN  Cube(ij).monthly_expenses =
               ((1500 + 400 * k) + (300 + 150 * k) + (500 + 100 * k)) * Scale

\* a Household configured with num_dots = 2 and one occupation holds one
\* Member and one dependent, carries the baseline of three persons and has
\* paid a month of it
C17_Witness ==
    /\ pc = "idle" /\ current_month = 1
    /\ \E ij \in CubeIds :
          /\ Cube(ij).num_dots = 2
          /\ MembersHeld(Cube(ij)) = 1
          /\ Cube(ij).num_dependents = 1
          /\ Cube(ij).monthly_expenses = 4250 * Scale
          /\ Len(Cube(ij).expense_history) = 1
          /\ Cube(ij).expense_history[1] >= 4250 * Scale

\* the months of the Simulation a Household has been through since its
\* start_month; inside a running month the Communities before cv_i have
\* had theirs already
MonthsElapsed(ij) ==
    current_month - Cube(ij).start_month
        + (IF pc = "step_cvs" /\ ij[1] < cv_i THEN 1 ELSE 0)

\* the three histories of a Household hold n entries each
HistoriesOfLength(cube, n) ==
    /\ Len(cube.wealth_history) = n
    /\ Len(cube.income_history) = n
    /\ Len(cube.expense_history) = n
    /\ Len(cube.entry_months) = n

CalledDot == Cube(<<call.of[1], call.of[2]>>).dots[call.of[3]]

RowsOf(m, ij) ==
    {k \in DOMAIN call.arg :
        /\ call.arg[k].month = m
        /\ call.arg[k].circlverse_id = circlverses[ij[1]].circlverse_id
        /\ call.arg[k].cube_id = Cube(ij).cube_id}

\* C21: the export holds, for each elapsed month m in 0..current_month-1 and
\* each (Community, Household) pair, exactly one row, carrying the wealth
\* the Household recorded for month m of the Simulation and its income and
\* expenses at index m, 0 when index m is out of range of that history.
C21_OneRowPerMonthAndHousehold ==
    call.op = "export_to_csv" =>
       \A m \in 0..(current_month - 1), ij \in CubeIds :
          /\ Cardinality(RowsOf(m, ij)) = 1
          /\ \A k \in RowsOf(m, ij) :
                /\ \E e \in DOMAIN Cube(ij).entry_months :
                      /\ Cube(ij).entry_months[e] = m
                      /\ call.arg[k].wealth = Cube(ij).wealth_history[e]
                /\ call.arg[k].income =
                      IF m < Len(Cube(ij).income_history)
                      THEN Cube(ij).income_history[m + 1] ELSE 0
                /\ call.arg[k].expenses =
                      IF m < Len(Cube(ij).expense_history)
                      THEN Cube(ij).expense_history[m + 1] ELSE 0

\* at month 2 a Simulation was exported that holds a Household which joined
\* at month 1: its only row is labelled month 0 and carries what it
\* recorded in month 1, and no row of month 1 is written for it
C21_Witness ==
    /\ call.op = "export_to_csv"
    /\ current_month = 2
    /\ \E ij \in CubeIds :
          /\ Cube(ij).start_month = 1
          /\ Cube(ij).entry_months = <<1>>
          /\ RowsOf(1, ij) = {}
          /\ Cardinality(RowsOf(0, ij)) = 1
          /\ \A k \in RowsOf(0, ij) :
                call.arg[k].wealth = Cube(ij).wealth_history[1]

\* the stored metrics of a Community are those of its Households now
MetricsCurrent(cv) ==
    /\ cv.total_wealth = SumSeq(Wealths(cv))
    /\ cv.average_wealth = IF cv.cluster_cubes = <<>> THEN 0
                           ELSE SumSeq(Wealths(cv)) \div Len(cv.cluster_cubes)

\* C22: the stored total_wealth and average_wealth of a Community are never
\* out of date: in every state after a simulate_month of the Community,
\* after a shock or an added Household included, and right after reset,
\* total_wealth is the sum of the current wealth of its Households and
\* average_wealth that sum divided by their number (0 without Households).
C22_MetricsNeverStale ==
    \A i \in DOMAIN circlverses :
        (circlverses[i].wealth_history # <<>> \/ call.op = "reset")
            => MetricsCurrent(circlverses[i])

\* right after reset a Community whose Households all hold 0 still stores
\* the total and the average of its last simulated month
C22_Witness ==
    /\ call.op = "reset"
    /\ \E i \in DOMAIN circlverses :
          /\ circlverses[i].cluster_cubes # <<>>
          /\ \A j \in DOMAIN circlverses[i].cluster_cubes :
                circlverses[i].cluster_cubes[j].current_wealth = 0
          /\ circlverses[i].wealth_history = <<>>
          /\ circlverses[i].total_wealth > 0
          /\ circlverses[i].average_wealth > 0

\* C23: whenever the wealth_history of a Household is non-empty its last
\* entry is the current wealth of the Household, in every state reachable by
\* steps and by job_loss, medical and windfall shocks.
C23_HistoryEndsAtWealth ==
    \A ij \in CubeIds :
        Cube(ij).wealth_history # <<>> =>
            Last(Cube(ij).wealth_history) = Cube(ij).current_wealth

\* a medical shock of -5000 has hit a Household after its first month: its
\* wealth is 5000 below the last entry of its history
C23_Witness ==
    /\ call.op = "medical"
    /\ \E ij \in CubeIds :
          /\ Len(Cube(ij).wealth_history) = 1
          /\ Cube(ij).current_wealth = Last(Cube(ij).wealth_history) - 5000 * Scale

\* C24: for a Community whose Households all hold non-negative wealth,
\* gini_coefficient() lies between 0 and (n - 1) / n, n being the number of
\* its Households.
C24_GiniInRange ==
    call.op = "gini" =>
        LET cv == circlverses[call.of]
            n == Len(cv.cluster_cubes)
        IN  (n >= 1 /\ \A j \in 1..n : cv.cluster_cubes[j].current_wealth >= 0) =>
               /\ call.arg.den > 0
               /\ call.arg.num >= 0
               /\ call.arg.num * n <= (n - 1) * call.arg.den

\* the coefficient returned for five Households of one and the same
\* positive wealth is below 0
C24_Witness ==
    /\ call.op = "gini"
    /\ Len(circlverses[call.of].cluster_cubes) = 5
    /\ \A j \in 1..5 :
          circlverses[call.of].cluster_cubes[j].current_wealth = 57 * Scale
    /\ call.arg.den > 0
    /\ call.arg.num < 0
====
